---- MODULE Spec2Model ----
(***************************************************************************)
(* Model of the PCIe SDR source block (lib/pciesdr/pciesdr_source_c.cc):   *)
(* device session life cycle (start/stop), the streaming reader (work),    *)
(* the rational sample-rate negotiator, the ppm frequency corrector and    *)
(* the gain arbiter.                                                       *)
(*                                                                         *)
(* Numbers.  The C++ code computes with IEEE-754 doubles, long and         *)
(* (u)int64_t.  TLC integers are 32 bit wide, so every 64-bit quantity is  *)
(* a "Big": a big-endian sequence of base-1000 digits without leading      *)
(* zeros, i.e. the usual comma groups (1,500,015,000 is <<1,500,15,0>>).   *)
(* A finite non-negative double is a record [m, e] standing for m * 2^e    *)
(* with m a Big below 2^53; products and sums are computed exactly and     *)
(* then rounded to nearest-even as the FPU does.                           *)
(***************************************************************************)
EXTENDS Integers, Sequences, FiniteSets, TLC

\* body(v) with v evaluated first (TLC evaluates operator arguments and LET
\* definitions lazily, deep inside the operator that finally needs them)
Strict(v, body(_)) == CHOOSE r \in {body(x) : x \in {v}} : TRUE

\* TRUE, with v evaluated: a guard Done(acc) in a loop keeps the accumulator a
\* value instead of a chain of suspended computations
Done(v) == v = v

(* ---------------- arbitrary precision naturals ---------------- *)

RECURSIVE Trim(_)
Trim(s) == IF Len(s) > 1 /\ Head(s) = 0 THEN Trim(Tail(s)) ELSE s

RECURSIVE Zeros(_)
Zeros(n) == IF n <= 0 THEN << >> ELSE <<0>> \o Zeros(n - 1)

PadTo(s, n) == Zeros(n - Len(s)) \o s

RECURSIVE FromInt(_)
FromInt(n) == IF n < 1000 THEN <<n>> ELSE Append(FromInt(n \div 1000), n % 1000)

RECURSIVE ToInt(_)
ToInt(b) == IF Len(b) = 0 THEN 0
            ELSE ToInt(SubSeq(b, 1, Len(b) - 1)) * 1000 + b[Len(b)]

BZero == <<0>>
IsZero(b) == Trim(b) = BZero

RECURSIVE CmpRec(_, _, _)
CmpRec(a, b, i) == IF i > Len(a) THEN 0
                   ELSE IF a[i] < b[i] THEN -1
                   ELSE IF a[i] > b[i] THEN 1
                   ELSE CmpRec(a, b, i + 1)

BCmp(a, b) == LET x == Trim(a)
                  y == Trim(b)
              IN  IF Len(x) < Len(y) THEN -1
                  ELSE IF Len(x) > Len(y) THEN 1
                  ELSE CmpRec(x, y, 1)

BLt(a, b) == BCmp(a, b) < 0
BLe(a, b) == BCmp(a, b) <= 0
BEq(a, b) == BCmp(a, b) = 0

RECURSIVE AddRec(_, _, _, _, _)
AddRec(a, b, i, carry, acc) ==
    IF Done(<<carry, acc>>) /\ i = 0 THEN (IF carry = 0 THEN acc ELSE <<carry>> \o acc)
    ELSE LET t == a[i] + b[i] + carry
         IN  AddRec(a, b, i - 1, t \div 1000, <<t % 1000>> \o acc)

BAdd(a, b) == LET n == IF Len(a) > Len(b) THEN Len(a) ELSE Len(b)
              IN  Trim(AddRec(PadTo(a, n), PadTo(b, n), n, 0, << >>))

RECURSIVE SubRec(_, _, _, _, _)
SubRec(a, b, i, borrow, acc) ==
    IF Done(acc) /\ i = 0 THEN acc
    ELSE LET t == a[i] - b[i] - borrow
         IN  IF t < 0 THEN SubRec(a, b, i - 1, 1, <<t + 1000>> \o acc)
                      ELSE SubRec(a, b, i - 1, 0, <<t>> \o acc)

\* a - b for a >= b
BSub(a, b) == LET n == IF Len(a) > Len(b) THEN Len(a) ELSE Len(b)
              IN  Trim(SubRec(PadTo(a, n), PadTo(b, n), n, 0, << >>))

RECURSIVE MulSmallRec(_, _, _, _, _)
MulSmallRec(a, k, i, carry, acc) ==
    IF Done(<<carry, acc>>) /\ i = 0 THEN (IF carry = 0 THEN acc ELSE FromInt(carry) \o acc)
    ELSE LET t == a[i] * k + carry
         IN  MulSmallRec(a, k, i - 1, t \div 1000, <<t % 1000>> \o acc)

\* a * k for 0 <= k <= 2000000
BMulSmall(a, k) == Trim(MulSmallRec(a, k, Len(a), 0, << >>))

RECURSIVE MulRec(_, _, _, _)
MulRec(a, b, j, acc) ==
    IF Done(acc) /\ j > Len(b) THEN acc
    ELSE MulRec(a, b, j + 1, BAdd(acc \o <<0>>, BMulSmall(a, b[j])))

BMul(a, b) == Trim(MulRec(a, b, 1, BZero))

RECURSIVE DivSmallRec(_, _, _, _, _)
DivSmallRec(a, d, i, rem, acc) ==
    IF Done(<<rem, acc>>) /\ i > Len(a) THEN [q |-> Trim(IF acc = << >> THEN BZero ELSE acc), r |-> rem]
    ELSE LET t == rem * 1000 + a[i]
         IN  DivSmallRec(a, d, i + 1, t % d, Append(acc, t \div d))

\* quotient and remainder of a by d, 1 <= d <= 2^20
BDivSmall(a, d) == DivSmallRec(a, d, 1, 0, << >>)

\* 2^n, n in 0 .. 20
Pow2(n) == <<1, 2, 4, 8, 16, 32, 64, 128, 256, 512, 1024, 2048, 4096, 8192, 16384, 32768,
             65536, 131072, 262144, 524288, 1048576>>[n + 1]

\* 2^0, 2^20, 2^40, ... 2^120 as Bigs
Pow2Chunks == << <<1>>,
                 <<1, 48, 576>>,
                 <<1, 99, 511, 627, 776>>,
                 <<1, 152, 921, 504, 606, 846, 976>>,
                 <<1, 208, 925, 819, 614, 629, 174, 706, 176>>,
                 <<1, 267, 650, 600, 228, 229, 401, 496, 703, 205, 376>>,
                 <<1, 329, 227, 995, 784, 915, 872, 903, 807, 60, 280, 344, 576>> >>

\* 2^n as a Big, n in 0 .. 139
BPow2(n) == BMulSmall(Pow2Chunks[(n \div 20) + 1], Pow2(n % 20))

Pow2Tab == [n \in 0 .. 139 |-> BPow2(n)]

\* a * 2^n
BShl(a, n) == BMul(a, Pow2Tab[n])

\* floor(a / 2^n) and whether any one bit was shifted out
RECURSIVE ShrRec(_, _, _)
ShrRec(a, n, lost) ==
    IF Done(<<a, lost>>) /\ n = 0 THEN [q |-> a, lost |-> lost]
    ELSE LET k == IF n >= 20 THEN 20 ELSE n
             d == BDivSmall(a, Pow2(k))
         IN  ShrRec(d.q, n - k, lost \/ d.r # 0)

BShr(a, n) == ShrRec(a, n, FALSE)

IsOdd(b) == b[Len(b)] % 2 = 1

\* the number of bits of a: the least n with a < 2^n
BitLen(a) == LET t  == Trim(a)
                 lo == IF Len(t) = 1 THEN 0 ELSE 10 * (Len(t) - 1) - 1
             IN  CHOOSE n \in lo .. (lo + 12) :
                     /\ BLt(t, Pow2Tab[n])
                     /\ n = 0 \/ ~BLt(t, Pow2Tab[n - 1])

(* ---------------- IEEE-754 binary64, finite and non-negative ---------------- *)

\* the double nearest to the real number N * 2^e, ties to even; a record [m, e] with m < 2^53
DRoundBig(N, e) ==
    LET len == BitLen(N)
    IN  IF len <= 53 THEN [m |-> N, e |-> e]
        ELSE LET sh == len - 53
                 d  == BShr(N, sh - 1)               \* 54 bits: mantissa and guard bit
                 h  == BDivSmall(d.q, 2)
                 up == h.r = 1 /\ (d.lost \/ IsOdd(h.q))
             IN  [m |-> IF up THEN BAdd(h.q, <<1>>) ELSE h.q, e |-> e + sh]

DRound(N, e) == Strict(Trim(N), LAMBDA n : DRoundBig(n, e))

DFromBig(N) == DRound(N, 0)
DFromInt(n) == DFromBig(FromInt(n))

MinExp(x, y) == IF x.e < y.e THEN x.e ELSE y.e

\* the mantissa of x at exponent e <= x.e
Align(x, e) == BShl(x.m, x.e - e)

DMul(x0, y0) ==
    Strict(x0, LAMBDA x : Strict(y0, LAMBDA y : DRound(BMul(x.m, y.m), x.e + y.e)))

DAdd(x0, y0) ==
    Strict(x0, LAMBDA x : Strict(y0, LAMBDA y :
        DRound(BAdd(Align(x, MinExp(x, y)), Align(y, MinExp(x, y))), MinExp(x, y))))

\* x - y for x >= y
DSub(x0, y0) ==
    Strict(x0, LAMBDA x : Strict(y0, LAMBDA y :
        DRound(BSub(Align(x, MinExp(x, y)), Align(y, MinExp(x, y))), MinExp(x, y))))

DLt(x0, y0) ==
    Strict(x0, LAMBDA x : Strict(y0, LAMBDA y :
        BLt(Align(x, MinExp(x, y)), Align(y, MinExp(x, y)))))

\* std::floor, and the conversion double -> (u)int64_t of a non-negative value
DFloor(x0) ==
    Strict(x0, LAMBDA x : IF x.e >= 0 THEN BShl(x.m, x.e) ELSE BShr(x.m, 0 - x.e).q)

\* round(): nearest integer, halfway cases away from zero
DRoundHalfAway(x0) ==
    Strict(x0, LAMBDA x :
        IF x.e >= 0 THEN BShl(x.m, x.e)
        ELSE BDivSmall(BAdd(BShr(x.m, (0 - x.e) - 1).q, <<1>>), 2).q)

\* the literal 0.000001 = 0x1.0c6f7a0b5ed8dp-20
OneMillionth == [m |-> <<4, 722, 366, 482, 869, 645>>, e |-> -72]
DOne == [m |-> <<1>>, e |-> 0]

(* ---------------- pure functions of the source ---------------- *)

\* static long gcd(long a, long b)
RECURSIVE gcd(_, _)
gcd(a, b) == IF a = 0 THEN b
             ELSE IF b = 0 THEN a
             ELSE IF a < b THEN gcd(a, b % a)
             ELSE gcd(b, a % b)

\* #define APPLY_PPM_CORR(val, ppm) ((val) * (1.0 + (ppm) * 0.000001))
APPLY_PPM_CORR(val, ppm) == DMul(val, DAdd(DOne, DMul(ppm, OneMillionth)))


(* ---------------- state ---------------- *)

VARIABLES
    _running,          \* static bool pciesdr_source_c::_running
    timestamp_rx,      \* int64_t timestamp_rx
    _center_freq,      \* double _center_freq (whole hertz, a Big)
    _freq_corr,        \* double _freq_corr (whole ppm)
    _sample_rate,      \* double _sample_rate, a record [i, k, s] for i + k / 2^s; 0 before the first set
    rx_freq,           \* StartParams.rx_freq[0]
    sample_rate_num,   \* StartParams.sample_rate_num[0]
    sample_rate_den,   \* StartParams.sample_rate_den[0]
    dev_streaming,     \* transport side: msdr_start succeeded and no msdr_stop succeeded since
    reported_ts,       \* history: timestamp of the last successful msdr_read since the last successful start()
    call,              \* history: the last completed call, its argument, result and transport commands
    rx_gain,           \* StartParams.rx_gain[0]
    rx_bandwidth,      \* StartParams.rx_bandwidth[0], a double
    _vga_gain,         \* double _vga_gain
    handed,            \* history: << >>, or <<p>> with p the StartParams the last msdr_start was given
    started,           \* history: this session's start() returned true and no stop() of it has since
    session,           \* "none" before construction, "alive", "failed" (the constructor threw), "destroyed"
    _dev,              \* MultiSDRState *_dev: NULL or the handle msdr_open returned
    closes,            \* history: the number of msdr_close calls
    other,             \* a second pciesdr_source_c of the process: "none" or "alive"
    pc,                \* per thread: the statement it is at, "idle" between calls
    lock               \* _running_mutex: "free" or the thread that holds it

vars == <<call.op, _running, timestamp_rx, _center_freq, _freq_corr, _sample_rate, rx_freq,
          sample_rate_num, sample_rate_den, dev_streaming, reported_ts, call,
          rx_gain, rx_bandwidth, _vga_gain, handed, started, session, _dev, closes,
          other, pc, lock>>

streamVars == <<_running, timestamp_rx, dev_streaming, reported_ts, handed, started>>
freqVars   == <<_center_freq, _freq_corr, rx_freq>>
rateVars   == <<_sample_rate, sample_rate_num, sample_rate_den>>
gainVars   == <<rx_gain, rx_bandwidth, _vga_gain>>
objVars    == <<session, _dev, closes, other>>
threadVars == <<pc, lock>>

NULL == "NULL"
Threads == {"ctl", "run"}

\* start parameters that set_gain() does not reach
StartParamsWithoutGain ==
    [rx_freq |-> rx_freq, sample_rate_num |-> sample_rate_num, sample_rate_den |-> sample_rate_den,
     rx_gain |-> 0, rx_bandwidth |-> rx_bandwidth]

\* the SDRStartParams StartParams member, as msdr_start reads it
StartParams ==
    [rx_freq |-> rx_freq, sample_rate_num |-> sample_rate_num, sample_rate_den |-> sample_rate_den,
     rx_gain |-> rx_gain, rx_bandwidth |-> rx_bandwidth]

(* ---------------- bounds of the model ---------------- *)

MaxTs    == 3      \* timestamps reported by the transport: 0 .. MaxTs
MaxItems == 2      \* noutput_items: 1 .. MaxItems

Timestamps  == 0 .. MaxTs
ItemCounts  == 1 .. MaxItems
StatusCodes == {0, -1, 1}      \* status of msdr_start / msdr_stop / msdr_get_stats; non-zero is failure
NegCodes    == {-1, -2}        \* failure codes of msdr_read

LiveGains   == {0, 25, 31}     \* answers of msdr_get_rx_gain

Cmd(f, rc) == [f |-> f, rc |-> rc]

(* ---------------- device session: start / stop ---------------- *)

\* start() that does not treat a failed statistics query as a failed start
StartOutcomeIgnoringStats(rcStart, rcStats, running, ts) ==
    IF rcStart # 0 THEN [ret |-> FALSE, running |-> running, ts |-> ts]
    ELSE [ret |-> TRUE, running |-> TRUE, ts |-> 0]

\* start() that resets the timestamp before the statistics query
StartOutcomeResetEarly(rcStart, rcStats, running, ts) ==
    IF rcStart # 0 THEN [ret |-> FALSE, running |-> running, ts |-> ts]
    ELSE IF rcStats # 0 THEN [ret |-> FALSE, running |-> running, ts |-> 0]
    ELSE [ret |-> TRUE, running |-> TRUE, ts |-> 0]

\* the effect of start() on (_running, timestamp_rx) given the two transport results
StartOutcome(rcStart, rcStats, running, ts) ==
    IF rcStart # 0 THEN [ret |-> FALSE, running |-> running, ts |-> ts]
    ELSE IF rcStats # 0 THEN [ret |-> FALSE, running |-> running, ts |-> ts]
    ELSE [ret |-> TRUE, running |-> TRUE, ts |-> 0]

\* bool pciesdr_source_c::start()
start ==
    IF _dev = NULL
    THEN /\ call' = [op |-> "start", after |-> call.op, arg |-> 0, ret |-> FALSE, io |-> << >>]
         /\ UNCHANGED <<streamVars, freqVars, rateVars, gainVars, objVars, threadVars>>
    ELSE
    \E rcStart \in StatusCodes, rcStats \in StatusCodes :
        LET o  == StartOutcome(rcStart, rcStats, _running, timestamp_rx)
            io == IF rcStart # 0 THEN <<Cmd("msdr_start", rcStart)>>
                  ELSE <<Cmd("msdr_start", rcStart), Cmd("msdr_get_stats", rcStats)>>
        IN  /\ rcStart # 0 => rcStats = 0      \* the statistics are not queried then
            /\ _running' = o.running
            /\ timestamp_rx' = o.ts
            /\ dev_streaming' = IF rcStart = 0 THEN TRUE ELSE dev_streaming
            /\ reported_ts' = IF o.ret THEN 0 ELSE reported_ts
            /\ handed' = <<StartParams>>
            /\ started' = IF o.ret THEN TRUE ELSE started
            /\ call' = [op |-> "start", after |-> call.op, arg |-> 0, ret |-> o.ret, io |-> io]
            /\ UNCHANGED <<freqVars, rateVars, gainVars, objVars, threadVars>>

\* the effect of stop() on _running given the transport result
StopOutcome(rcStop, running) ==
    IF rcStop # 0 THEN [ret |-> FALSE, running |-> running]
    ELSE [ret |-> TRUE, running |-> FALSE]

\* bool pciesdr_source_c::stop()
stop ==
    IF _dev = NULL
    THEN /\ call' = [op |-> "stop", after |-> call.op, arg |-> 0, ret |-> FALSE, io |-> << >>]
         /\ UNCHANGED <<streamVars, freqVars, rateVars, gainVars, objVars, threadVars>>
    ELSE
    \E rcStop \in StatusCodes :
        LET o == StopOutcome(rcStop, _running)
        IN  /\ _running' = o.running
            /\ dev_streaming' = IF rcStop = 0 THEN FALSE ELSE dev_streaming
            /\ started' = IF o.ret THEN FALSE ELSE started
            /\ call' = [op |-> "stop", after |-> call.op, arg |-> 0, ret |-> o.ret, io |-> <<Cmd("msdr_stop", rcStop)>>]
            /\ UNCHANGED <<timestamp_rx, reported_ts, handed, freqVars, rateVars, gainVars, objVars, threadVars>>

(* ---------------- streaming reader ---------------- *)

\* work() that stores the timestamp before it looks at the return code
WorkOutcomeStoreOnError(rc, timestamp_tmp, ts) ==
    IF rc < 0 THEN [ret |-> 0, ts |-> timestamp_tmp]
    ELSE [ret |-> rc, ts |-> timestamp_tmp]

\* work() that only ever advances the stored timestamp
WorkOutcomeMonotone(rc, timestamp_tmp, ts) ==
    IF rc < 0 THEN [ret |-> 0, ts |-> ts]
    ELSE [ret |-> rc, ts |-> IF timestamp_tmp > ts THEN timestamp_tmp ELSE ts]

\* the effect of work() on timestamp_rx given the result of msdr_read
WorkOutcome(rc, timestamp_tmp, ts) ==
    IF rc < 0 THEN [ret |-> 0, ts |-> ts]
    ELSE [ret |-> rc, ts |-> timestamp_tmp]

\* int pciesdr_source_c::work(noutput_items, ...)
work(noutput_items) ==
    \E rc \in NegCodes \cup (0 .. noutput_items), timestamp_tmp \in Timestamps,
       rcStats \in StatusCodes :
        LET o  == WorkOutcome(rc, timestamp_tmp, timestamp_rx)
            rd == [f |-> "msdr_read", rc |-> rc, n |-> noutput_items, ts |-> timestamp_tmp]
            io == IF rc < 0 THEN <<rd, Cmd("msdr_get_stats", rcStats)>> ELSE <<rd>>
        IN  /\ rc >= 0 => rcStats = 0          \* the statistics are not queried then
            /\ timestamp_rx' = o.ts
            /\ reported_ts' = IF rc >= 0 THEN timestamp_tmp ELSE reported_ts
            /\ call' = [op |-> "work", after |-> call.op, arg |-> noutput_items, ret |-> o.ret, io |-> io]
            /\ UNCHANGED <<_running, dev_streaming, handed, started, freqVars, rateVars, gainVars,
                           objVars, threadVars>>

(* ---------------- frequency corrector ---------------- *)

\* osmosdr::freq_range_t get_freq_range(): [70e6, 6000e6]
get_freq_range == [start |-> <<70, 0, 0>>, stop |-> <<6, 0, 0, 0>>]

\* pciesdr_set_freq that stores the frequency before it validates it
pciesdr_set_freq_StoreFirst(corr_freq, rx) ==
    IF BLt(corr_freq, <<70, 0, 0>>) \/ BLt(<<6, 0, 0, 0>>, corr_freq)
    THEN [ret |-> 1, rx |-> corr_freq]
    ELSE [ret |-> 0, rx |-> corr_freq]

\* int pciesdr_set_freq(MultiSDRState *, uint64_t corr_freq): the status and the new rx_freq[0]
pciesdr_set_freq(corr_freq, rx) ==
    IF BLt(corr_freq, <<70, 0, 0>>) \/ BLt(<<6, 0, 0, 0>>, corr_freq)
    THEN [ret |-> 1, rx |-> rx]
    ELSE [ret |-> 0, rx |-> corr_freq]

\* the body of set_center_freq(freq) under correction ppm: new _center_freq and rx_freq[0]
SetCenterFreq(freq, ppm, center, rx) ==
    Strict(DFloor(APPLY_PPM_CORR(DFromBig(freq), DFromInt(ppm))), LAMBDA corr_freq :
    Strict(pciesdr_set_freq(corr_freq, rx), LAMBDA r :
        [center |-> IF r.ret = 0 THEN freq ELSE center, rx |-> r.rx, status |-> r.ret]))

\* double set_center_freq(double freq, size_t chan)
set_center_freq(freq) ==
    LET o == SetCenterFreq(freq, _freq_corr, _center_freq, rx_freq)
    IN  /\ _center_freq' = o.center
        /\ rx_freq' = o.rx
        /\ call' = [op |-> "set_center_freq", after |-> call.op, arg |-> freq, ret |-> o.center, io |-> << >>]
        /\ UNCHANGED <<_freq_corr, streamVars, rateVars, gainVars, objVars, threadVars>>

\* double get_center_freq(size_t chan)
get_center_freq ==
    /\ call' = [op |-> "get_center_freq", after |-> call.op, arg |-> 0, ret |-> _center_freq, io |-> << >>]
    /\ UNCHANGED <<freqVars, streamVars, rateVars, gainVars, objVars, threadVars>>

\* double set_freq_corr(double ppm, size_t chan)
set_freq_corr(ppm) ==
    LET o == SetCenterFreq(_center_freq, ppm, _center_freq, rx_freq)
    IN  /\ _freq_corr' = ppm
        /\ _center_freq' = o.center
        /\ rx_freq' = o.rx
        /\ call' = [op |-> "set_freq_corr", after |-> call.op, arg |-> ppm, ret |-> ppm, io |-> << >>]
        /\ UNCHANGED <<streamVars, rateVars, gainVars, objVars, threadVars>>

(* ---------------- rational rate negotiator ---------------- *)

\* const long precision = 1000000000
precision == 1000000000

\* osmosdr::meta_range_t get_sample_rates(): [400e3, 20e6]
get_sample_rates == [start |-> 400000, stop |-> 20000000]

Rate(i, k, s) == [i |-> i, k |-> k, s |-> s]

\* the double i + k / 2^s
RateToDouble(rate) == DRound(BAdd(BShl(FromInt(rate.i), rate.s), FromInt(rate.k)), 0 - rate.s)

\* the fraction part of pciesdr_set_sample_rate: numerator and denominator for an accepted rate
RateFraction(rate) ==
    Strict(DFromBig(DFloor(rate)), LAMBDA integral :
    Strict(DSub(rate, integral), LAMBDA frac :
    Strict(ToInt(DRoundHalfAway(DMul(frac, DFromInt(precision)))), LAMBDA rounded :
    Strict(gcd(rounded, precision), LAMBDA gcd_ :
        LET denominator == precision \div gcd_
            numerator   == rounded \div gcd_
        IN  [num |-> DFloor(DAdd(DMul(integral, DFromInt(denominator)), DFromInt(numerator))),
             den |-> denominator]))))

\* pciesdr_set_sample_rate that resets the fraction before it validates the rate
pciesdr_set_sample_rate_ResetFirst(rate0, num, den) ==
    Strict(rate0, LAMBDA rate :
        IF DLt(rate, DFromInt(400000)) \/ DLt(DFromInt(25000000), rate)
        THEN [ret |-> 1, num |-> BZero, den |-> 1]
        ELSE Strict(RateFraction(rate), LAMBDA f : [ret |-> 0, num |-> f.num, den |-> f.den]))

\* pciesdr_set_sample_rate that validates against the advertised range of get_sample_rates()
pciesdr_set_sample_rate_AdvertisedMax(rate0, num, den) ==
    Strict(rate0, LAMBDA rate :
        IF DLt(rate, DFromInt(get_sample_rates.start)) \/ DLt(DFromInt(get_sample_rates.stop), rate)
        THEN [ret |-> 1, num |-> num, den |-> den]
        ELSE Strict(RateFraction(rate), LAMBDA f : [ret |-> 0, num |-> f.num, den |-> f.den]))

\* int pciesdr_set_sample_rate(MultiSDRState *, double rate): status, numerator, denominator
pciesdr_set_sample_rate(rate0, num, den) ==
    Strict(rate0, LAMBDA rate :
        IF DLt(rate, DFromInt(400000)) \/ DLt(DFromInt(25000000), rate)
        THEN [ret |-> 1, num |-> num, den |-> den]
        ELSE Strict(RateFraction(rate), LAMBDA f : [ret |-> 0, num |-> f.num, den |-> f.den]))

\* double set_sample_rate(double rate)
set_sample_rate(x) ==
    LET r == pciesdr_set_sample_rate(RateToDouble(x), sample_rate_num, sample_rate_den)
    IN  /\ _sample_rate' = IF r.ret = 0 THEN x ELSE _sample_rate
        /\ sample_rate_num' = r.num
        /\ sample_rate_den' = r.den
        /\ call' = [op |-> "set_sample_rate", after |-> call.op, arg |-> x, ret |-> _sample_rate', io |-> << >>]
        /\ UNCHANGED <<streamVars, freqVars, gainVars, objVars, threadVars>>

\* double get_sample_rate()
get_sample_rate ==
    /\ call' = [op |-> "get_sample_rate", after |-> call.op, arg |-> 0, ret |-> _sample_rate, io |-> << >>]
    /\ UNCHANGED <<rateVars, streamVars, freqVars, gainVars, objVars, threadVars>>

(* ---------------- gain arbiter ---------------- *)

\* a gain command or query as the transport sees it
GainCmd(f, rc, gain) == [f |-> f, rc |-> rc, gain |-> gain]

\* get_gain() that stores the live value as the configured one
GetGainStoringLive(running, configured, live) ==
    [ret |-> IF running THEN live ELSE configured,
     rx_gain |-> IF running THEN live ELSE configured,
     io |-> IF running THEN <<GainCmd("msdr_get_rx_gain", 0, live)>> ELSE << >>]

\* double get_gain(size_t chan): the value returned, StartParams.rx_gain[chan]
\* afterwards and the transport queries made, live being what msdr_get_rx_gain answers
GetGain(running, configured, live) ==
    [ret |-> IF running THEN live ELSE configured,
     rx_gain |-> configured,
     io |-> IF running THEN <<GainCmd("msdr_get_rx_gain", 0, live)>> ELSE << >>]

\* set_gain() that keeps the old configured gain when the live command fails
SetGainDroppedOnFailure(running, gain, old, rc) ==
    [rx_gain |-> IF running /\ rc # 0 THEN old ELSE gain,
     io |-> IF running THEN <<GainCmd("msdr_set_rx_gain", rc, gain)>> ELSE << >>]

\* the first part of set_gain(gain, chan), before its closing get_gain(chan):
\* StartParams.rx_gain[chan] afterwards and the transport command issued
SetGain(running, gain, old, rc) ==
    [rx_gain |-> gain,
     io |-> IF running THEN <<GainCmd("msdr_set_rx_gain", rc, gain)>> ELSE << >>]

\* the body of set_gain(gain, chan), entered as the call op(arg)
SetGainCall(op, arg, gain) ==
    \E rc \in StatusCodes, live \in LiveGains :
        LET s == SetGain(_running, gain, rx_gain, rc)
            g == GetGain(_running, s.rx_gain, live)
        IN  /\ ~_running => rc = 0 /\ live = 0      \* the transport is not consulted then
            /\ rx_gain' = g.rx_gain
            /\ call' = [op |-> op, after |-> call.op, arg |-> arg, ret |-> g.ret,
                        io |-> s.io \o g.io]
            /\ UNCHANGED <<rx_bandwidth, _vga_gain, streamVars, freqVars, rateVars, objVars, threadVars>>

\* double set_gain(double gain, size_t chan)
set_gain(gain) == SetGainCall("set_gain", gain, gain)

\* double get_gain(size_t chan)
get_gain ==
    \E live \in LiveGains :
        LET g == GetGain(_running, rx_gain, live)
        IN  /\ ~_running => live = 0                \* the transport is not consulted then
            /\ rx_gain' = g.rx_gain
            /\ call' = [op |-> "get_gain", after |-> call.op, arg |-> 0, ret |-> g.ret, io |-> g.io]
            /\ UNCHANGED <<rx_bandwidth, _vga_gain, streamVars, freqVars, rateVars, objVars, threadVars>>

\* set_if_gain() that stores and returns the requested gain
SetIfGainStoring(gain, vga) == [vga |-> gain, ret |-> gain]

\* the effect of set_if_gain(gain, chan): _vga_gain afterwards and the value returned
SetIfGain(gain, vga) == [vga |-> vga, ret |-> vga]

\* the body of set_if_gain(gain, chan), entered as the call op(arg)
SetIfGainCall(op, arg, gain) ==
    LET o == SetIfGain(gain, _vga_gain)
    IN  /\ _vga_gain' = o.vga
        /\ call' = [op |-> op, after |-> call.op, arg |-> arg, ret |-> o.ret, io |-> << >>]
        /\ UNCHANGED <<rx_gain, rx_bandwidth, streamVars, freqVars, rateVars, objVars, threadVars>>

\* double set_if_gain(double gain, size_t chan)
set_if_gain(gain) == SetIfGainCall("set_if_gain", gain, gain)

\* double set_gain(double gain, const std::string & name, size_t chan)
set_gain_name(gain, name) ==
    LET arg == [gain |-> gain, name |-> name]
    IN  IF name = "RF" THEN SetGainCall("set_gain_name", arg, gain)
        ELSE IF name = "IF" THEN SetIfGainCall("set_gain_name", arg, gain)
        ELSE SetGainCall("set_gain_name", arg, gain)

(* ---------------- bandwidth ---------------- *)

\* the literal 0.75
ThreeQuarters == [m |-> <<3>>, e |-> -2]

\* double set_bandwidth(double bandwidth, size_t chan), bandwidth a whole number of hertz
set_bandwidth(bandwidth) ==
    LET bw == IF bandwidth = 0 THEN DMul(RateToDouble(_sample_rate), ThreeQuarters)
              ELSE DFromInt(bandwidth)
    IN  /\ rx_bandwidth' = bw
        /\ call' = [op |-> "set_bandwidth", after |-> call.op, arg |-> bandwidth, ret |-> bw, io |-> << >>]
        /\ UNCHANGED <<rx_gain, _vga_gain, streamVars, freqVars, rateVars, objVars, threadVars>>

(* ---------------- construction and teardown ---------------- *)

\* the start parameters as the constructor prefills them
Prefilled == [rx_freq |-> <<1, 500, 0, 0>>, sample_rate_num |-> <<1, 500, 0>>, sample_rate_den |-> 1,
              rx_gain |-> 40, rx_bandwidth |-> DFromInt(10000)]

\* a constructor without its closing set_gain(0)
CtorGainPrefilled(prefilled) == prefilled

\* the configured gain the constructor leaves: set_gain(0) on the prefilled
\* parameters, the running flag of a first session being false
CtorGain(prefilled) == SetGain(FALSE, 0, prefilled, 0).rx_gain

\* the fields the constructor leaves given the results f of its set_center_freq
\* and r of its pciesdr_set_sample_rate: set_bandwidth(0) and set_gain(0) follow
ConstructedFrom(f, r, rate) ==
    [center |-> f.center, rx_freq |-> f.rx, rate |-> rate, num |-> r.num, den |-> r.den,
     bandwidth |-> DMul(RateToDouble(rate), ThreeQuarters),
     gain |-> CtorGain(Prefilled.rx_gain)]

\* the fields the constructor leaves given the result r of the
\* pciesdr_set_sample_rate of its set_sample_rate(400e3)
ConstructedRate(r) ==
    ConstructedFrom(SetCenterFreq(BDivSmall(BAdd(get_freq_range.start, get_freq_range.stop), 2).q,
                                  0, BZero, Prefilled.rx_freq),
                    r,
                    IF r.ret = 0 THEN Rate(get_sample_rates.start, 0, 0) ELSE Rate(0, 0, 0))

\* the fields the constructor leaves once the device is open: set_center_freq
\* of the middle of the range, set_sample_rate(400e3), set_bandwidth(0), set_gain(0)
Constructed ==
    ConstructedRate(pciesdr_set_sample_rate(DFromInt(get_sample_rates.start),
                                            Prefilled.sample_rate_num, Prefilled.sample_rate_den))

\* the state of a session whose constructor left the fields c
InitFrom(c) ==
    /\ _running = FALSE
    /\ timestamp_rx = 0
    /\ _freq_corr = 0
    /\ _center_freq = c.center
    /\ rx_freq = c.rx_freq
    /\ _sample_rate = c.rate
    /\ sample_rate_num = c.num
    /\ sample_rate_den = c.den
    /\ dev_streaming = FALSE
    /\ reported_ts = 0
    /\ call = [op |-> "ctor", after |-> "none", arg |-> 0, ret |-> 0, io |-> << >>]
    /\ rx_gain = c.gain
    /\ rx_bandwidth = c.bandwidth
    /\ _vga_gain = 0
    /\ handed = << >>
    /\ started = FALSE
    /\ session = "alive"
    /\ _dev = "handle"
    /\ closes = 0
    /\ other = "none"
    /\ pc = [t \in Threads |-> "idle"]
    /\ lock = "free"

\* pciesdr_source_c::pciesdr_source_c(args), the device having been opened
Init == InitFrom(Constructed)

\* the process before make_pciesdr_source_c(args): no object, the static flag 0
InitNone ==
    /\ _running = FALSE
    /\ timestamp_rx = 0
    /\ _freq_corr = 0
    /\ _center_freq = BZero
    /\ rx_freq = BZero
    /\ _sample_rate = Rate(0, 0, 0)
    /\ sample_rate_num = BZero
    /\ sample_rate_den = 0
    /\ dev_streaming = FALSE
    /\ reported_ts = 0
    /\ call = [op |-> "none", after |-> "none", arg |-> 0, ret |-> 0, io |-> << >>]
    /\ rx_gain = 0
    /\ rx_bandwidth = DFromInt(0)
    /\ _vga_gain = 0
    /\ handed = << >>
    /\ started = FALSE
    /\ session = "none"
    /\ _dev = NULL
    /\ closes = 0
    /\ other = "none"
    /\ pc = [t \in Threads |-> "idle"]
    /\ lock = "free"

\* the constructor once msdr_open has returned the handle h, leaving the fields c
ConstructFrom(h, c) ==
    /\ session' = "alive"
    /\ _dev' = h
    /\ _running' = FALSE
    /\ timestamp_rx' = 0
    /\ _center_freq' = c.center
    /\ rx_freq' = c.rx_freq
    /\ _sample_rate' = c.rate
    /\ sample_rate_num' = c.num
    /\ sample_rate_den' = c.den
    /\ rx_gain' = c.gain
    /\ rx_bandwidth' = c.bandwidth
    /\ call' = [op |-> "ctor", after |-> call.op, arg |-> 0, ret |-> 0,
                io |-> <<Cmd("msdr_open", 0)>>]
    /\ UNCHANGED <<_freq_corr, _vga_gain, dev_streaming, reported_ts, handed, started,
                   closes, other, threadVars>>

\* make_pciesdr_source_c(args): the constructor, which throws when msdr_open returns NULL
construct ==
    /\ session = "none"
    /\ \E h \in {NULL, "handle"} :
        IF h = NULL
        THEN /\ session' = "failed"
             /\ call' = [op |-> "ctor", after |-> call.op, arg |-> 0, ret |-> 1,
                         io |-> <<Cmd("msdr_open", 1)>>]
             /\ UNCHANGED <<_dev, closes, other, streamVars, freqVars, rateVars, gainVars, threadVars>>
        ELSE ConstructFrom(h, Constructed)

\* a destructor that leaves the device open
TeardownClosesNever(dev) == 0

\* the number of msdr_close calls of the destructor
TeardownCloses(dev) == IF dev # NULL THEN 1 ELSE 0

\* pciesdr_source_c::~pciesdr_source_c()
destroy ==
    /\ session = "alive"
    /\ session' = "destroyed"
    /\ closes' = closes + TeardownCloses(_dev)
    /\ call' = [op |-> "dtor", after |-> call.op, arg |-> 0, ret |-> 0,
                io |-> IF TeardownCloses(_dev) = 1 THEN <<Cmd("msdr_close", 0)>> ELSE << >>]
    /\ UNCHANGED <<_dev, other, streamVars, freqVars, rateVars, gainVars, threadVars>>

(* ---------------- a second session of the same process ---------------- *)

\* the constructor of a second pciesdr_source_c: its last statement clears the static flag
other_construct ==
    /\ other = "none"
    /\ other' = "alive"
    /\ _running' = FALSE
    /\ call' = [op |-> "other_ctor", after |-> call.op, arg |-> 0, ret |-> 0, io |-> << >>]
    /\ UNCHANGED <<timestamp_rx, dev_streaming, reported_ts, handed, started, session, _dev, closes,
                   freqVars, rateVars, gainVars, threadVars>>

\* start() of the second session, on its own device
other_start ==
    /\ other = "alive"
    /\ \E rcStart \in StatusCodes, rcStats \in StatusCodes :
        LET o == StartOutcome(rcStart, rcStats, _running, 0)
        IN  /\ rcStart # 0 => rcStats = 0
            /\ _running' = o.running
            /\ call' = [op |-> "other_start", after |-> call.op, arg |-> 0, ret |-> o.ret, io |-> << >>]
    /\ UNCHANGED <<timestamp_rx, dev_streaming, reported_ts, handed, started, freqVars, rateVars,
                   gainVars, objVars, threadVars>>

\* stop() of the second session, on its own device
other_stop ==
    /\ other = "alive"
    /\ \E rcStop \in StatusCodes :
        LET o == StopOutcome(rcStop, _running)
        IN  /\ _running' = o.running
            /\ call' = [op |-> "other_stop", after |-> call.op, arg |-> 0, ret |-> o.ret, io |-> << >>]
    /\ UNCHANGED <<timestamp_rx, dev_streaming, reported_ts, handed, started, freqVars, rateVars,
                   gainVars, objVars, threadVars>>

(* ---------------- the calls statement by statement, for concurrent callers ---------------- *)

Goto(t, label) == pc' = [pc EXCEPT ![t] = label]

\* boost::mutex::scoped_lock lock(_running_mutex): blocks while another (or the same) thread holds it
Acquire(t, from, to) ==
    /\ pc[t] = from
    /\ lock = "free"
    /\ lock' = t
    /\ Goto(t, to)

\* the end of the scope of a scoped_lock
Release(t, from, to) ==
    /\ pc[t] = from
    /\ lock' = "free"
    /\ Goto(t, to)

\* start(), lines 229-233: msdr_start with the start parameters
t_start_msdr_start(t) ==
    /\ pc[t] = "idle"
    /\ _dev # NULL
    /\ \E rc \in StatusCodes :
        /\ handed' = <<StartParams>>
        /\ dev_streaming' = IF rc = 0 THEN TRUE ELSE dev_streaming
        /\ Goto(t, IF rc = 0 THEN "start_get_stats" ELSE "idle")
    /\ UNCHANGED <<_running, timestamp_rx, reported_ts, started, lock, call,
                   freqVars, rateVars, gainVars, objVars>>

\* start(), lines 235-241: msdr_get_stats, then timestamp_rx = 0
t_start_get_stats(t) ==
    /\ pc[t] = "start_get_stats"
    /\ \E rc \in StatusCodes :
        /\ timestamp_rx' = IF rc = 0 THEN 0 ELSE timestamp_rx
        /\ reported_ts' = IF rc = 0 THEN 0 ELSE reported_ts
        /\ Goto(t, IF rc = 0 THEN "start_lock" ELSE "idle")
    /\ UNCHANGED <<_running, dev_streaming, handed, started, lock, call,
                   freqVars, rateVars, gainVars, objVars>>

\* start(), line 244
t_start_lock(t) ==
    /\ Acquire(t, "start_lock", "start_set")
    /\ UNCHANGED <<streamVars, call, freqVars, rateVars, gainVars, objVars>>

\* start(), line 246: _running = 1
t_start_set(t) ==
    /\ pc[t] = "start_set"
    /\ _running' = TRUE
    /\ started' = TRUE
    /\ Goto(t, "start_unlock")
    /\ UNCHANGED <<timestamp_rx, dev_streaming, reported_ts, handed, lock, call,
                   freqVars, rateVars, gainVars, objVars>>

\* start(), lines 247-249
t_start_unlock(t) ==
    /\ Release(t, "start_unlock", "idle")
    /\ UNCHANGED <<streamVars, call, freqVars, rateVars, gainVars, objVars>>

\* stop(), lines 257-261: msdr_stop
t_stop_msdr_stop(t) ==
    /\ pc[t] = "idle"
    /\ _dev # NULL
    /\ \E rc \in StatusCodes :
        /\ dev_streaming' = IF rc = 0 THEN FALSE ELSE dev_streaming
        /\ Goto(t, IF rc = 0 THEN "stop_lock" ELSE "idle")
    /\ UNCHANGED <<_running, timestamp_rx, reported_ts, handed, started, lock, call,
                   freqVars, rateVars, gainVars, objVars>>

\* stop(), line 264
t_stop_lock(t) ==
    /\ Acquire(t, "stop_lock", "stop_clear")
    /\ UNCHANGED <<streamVars, call, freqVars, rateVars, gainVars, objVars>>

\* stop(), line 266: _running = 0
t_stop_clear(t) ==
    /\ pc[t] = "stop_clear"
    /\ _running' = FALSE
    /\ started' = FALSE
    /\ Goto(t, "stop_unlock")
    /\ UNCHANGED <<timestamp_rx, dev_streaming, reported_ts, handed, lock, call,
                   freqVars, rateVars, gainVars, objVars>>

\* stop(), lines 267-269
t_stop_unlock(t) ==
    /\ Release(t, "stop_unlock", "idle")
    /\ UNCHANGED <<streamVars, call, freqVars, rateVars, gainVars, objVars>>

\* set_gain(), line 444: StartParams.rx_gain[chan] = gain
t_set_gain_store(t, gain) ==
    /\ pc[t] = "idle"
    /\ rx_gain' = gain
    /\ Goto(t, "set_gain_lock")
    /\ UNCHANGED <<rx_bandwidth, _vga_gain, lock, call, streamVars, freqVars, rateVars, objVars>>

\* set_gain(), line 447
t_set_gain_lock(t) ==
    /\ Acquire(t, "set_gain_lock", "set_gain_live")
    /\ UNCHANGED <<streamVars, call, freqVars, rateVars, gainVars, objVars>>

\* set_gain(), lines 449-451: if (_running) msdr_set_rx_gain(...), whatever it returns
t_set_gain_live(t) ==
    /\ pc[t] = "set_gain_live"
    /\ Goto(t, "set_gain_unlock")
    /\ UNCHANGED <<lock, streamVars, call, freqVars, rateVars, gainVars, objVars>>

\* a set_gain() whose scoped lock lives until the function returns
SetGainScopeEndsAtReturn(holder) == holder

\* set_gain(), line 452: who holds the mutex when the scope of the lock has ended
SetGainScopeEnd(holder) == "free"

\* set_gain(), lines 452-458: the scope ends, the failure is logged, get_gain(chan) is called
t_set_gain_unlock(t) ==
    /\ pc[t] = "set_gain_unlock"
    /\ lock' = SetGainScopeEnd(lock)
    /\ Goto(t, "get_gain")
    /\ UNCHANGED <<streamVars, call, freqVars, rateVars, gainVars, objVars>>

\* get_gain(), line 476: gain = StartParams.rx_gain[chan], called directly or by set_gain()
t_get_gain_load(t) ==
    /\ pc[t] \in {"idle", "get_gain"}
    /\ Goto(t, "get_gain_lock")
    /\ UNCHANGED <<lock, streamVars, call, freqVars, rateVars, gainVars, objVars>>

\* get_gain(), line 479
t_get_gain_lock(t) ==
    /\ Acquire(t, "get_gain_lock", "get_gain_live")
    /\ UNCHANGED <<streamVars, call, freqVars, rateVars, gainVars, objVars>>

\* get_gain(), lines 481-483: if (_running) gain = msdr_get_rx_gain(...)
t_get_gain_live(t) ==
    /\ pc[t] = "get_gain_live"
    /\ Goto(t, "get_gain_unlock")
    /\ UNCHANGED <<lock, streamVars, call, freqVars, rateVars, gainVars, objVars>>

\* get_gain(), lines 484-486
t_get_gain_unlock(t) ==
    /\ Release(t, "get_gain_unlock", "idle")
    /\ UNCHANGED <<streamVars, call, freqVars, rateVars, gainVars, objVars>>

(* ---------------- inputs ---------------- *)

FreqInputs == { <<50, 0, 0>>, <<69, 999, 999>>, <<70, 0, 0>>, <<1, 500, 0, 0>>,
                <<5, 999, 994, 1>>, <<6, 0, 0, 0>>, <<7, 0, 0, 0>> }
PpmInputs  == {0, 1, 10}

\* 100000, 399999.5, 400000, 1500000, 1500000.5, 1500000.1, 12345678.123456789, 20000000,
\* 20000000.1, 22000000.25, 25000000, 25000000.5, 30000000 as doubles
RateInputs == { Rate(100000, 0, 0), Rate(399999, 1, 1), Rate(400000, 0, 0), Rate(1500000, 0, 0), Rate(1500000, 1, 1),
                Rate(1500000, 214748365, 31), Rate(12345678, 66280359, 29),
                Rate(20000000, 0, 0), Rate(20000000, 13421773, 27), Rate(22000000, 1, 2),
                Rate(25000000, 0, 0), Rate(25000000, 1, 1), Rate(30000000, 0, 0) }

GainInputs == {0, 25, 60}
GainNames  == {"RF", "IF", "LNA"}

\* the configuration calls of an application with several streaming periods
LifeFreq      == <<1, 500, 0, 0>>
LifeRate      == Rate(1500000, 0, 0)
LifeGain      == 25
LifeBandwidth == 0

(* ---------------- specifications ---------------- *)

\* the life cycle and the streaming reader
Next == \/ start
        \/ stop
        \/ \E n \in ItemCounts : work(n)

Spec == Init /\ [][Next]_vars

\* the frequency corrector
NextFreq == \/ \E f \in FreqInputs : set_center_freq(f)
            \/ \E p \in PpmInputs : set_freq_corr(p)
            \/ get_center_freq

SpecFreq == Init /\ [][NextFreq]_vars

\* the rational rate negotiator
NextRate == \/ \E r \in RateInputs : set_sample_rate(r)
            \/ get_sample_rate

SpecRate == Init /\ [][NextRate]_vars

\* the gain arbiter of a session that is started and stopped
NextGain == \/ start
            \/ stop
            \/ \E g \in GainInputs : set_gain(g)
            \/ get_gain
            \/ \E g \in GainInputs : set_if_gain(g)
            \/ \E g \in GainInputs, name \in GainNames : set_gain_name(g, name)

SpecGain == Init /\ [][NextGain]_vars

\* one session from before its construction to after its teardown
NextSession == \/ construct
               \/ destroy
               \/ session = "alive" /\ start
               \/ session = "alive" /\ stop
               \/ session = "alive" /\ \E n \in ItemCounts : work(n)
               \/ session = "alive" /\ \E g \in GainInputs : set_gain(g)
               \/ session = "alive" /\ get_gain

SpecSession == InitNone /\ [][NextSession]_vars

\* streaming periods: the scheduler calls work() in a streaming period only, the
\* application sets frequency, rate and bandwidth between streaming periods and
\* the gain at any time
NextLife == \/ start
            \/ stop
            \/ started /\ work(1)
            \/ ~started /\ set_center_freq(LifeFreq)
            \/ ~started /\ set_sample_rate(LifeRate)
            \/ set_gain(LifeGain)
            \/ ~started /\ set_bandwidth(LifeBandwidth)

SpecLife == Init /\ [][NextLife]_vars

\* two sessions of one process
NextTwo == \/ start
           \/ stop
           \/ \E g \in GainInputs : set_gain(g)
           \/ get_gain
           \/ other_construct
           \/ other_start
           \/ other_stop

SpecTwo == Init /\ [][NextTwo]_vars

\* a control thread calling set_gain / get_gain while another thread calls start / stop
NextThreads == \/ t_start_msdr_start("run")
               \/ t_start_get_stats("run")
               \/ t_start_lock("run")
               \/ t_start_set("run")
               \/ t_start_unlock("run")
               \/ t_stop_msdr_stop("run")
               \/ t_stop_lock("run")
               \/ t_stop_clear("run")
               \/ t_stop_unlock("run")
               \/ \E g \in GainInputs : t_set_gain_store("ctl", g)
               \/ t_set_gain_lock("ctl")
               \/ t_set_gain_live("ctl")
               \/ t_set_gain_unlock("ctl")
               \/ t_get_gain_load("ctl")
               \/ t_get_gain_lock("ctl")
               \/ t_get_gain_live("ctl")
               \/ t_get_gain_unlock("ctl")

SpecThreads == Init /\ [][NextThreads]_vars

\* a step of thread t inside a call other than waiting for the mutex
Continue(t) == pc[t] # "idle" /\ pc[t] \notin {"start_lock", "stop_lock", "set_gain_lock", "get_gain_lock"}
               /\ NextThreads /\ pc'[t] # pc[t]

\* thread t is given the mutex
Granted(t) == pc[t] \in {"start_lock", "stop_lock", "set_gain_lock", "get_gain_lock"}
              /\ NextThreads /\ pc'[t] # pc[t]

\* a thread inside a call keeps running, and a thread waiting for the mutex is
\* given it if it is free again and again
SpecThreadsFair ==
    /\ SpecThreads
    /\ \A t \in Threads : WF_vars(Continue(t)) /\ SF_vars(Granted(t))

(* ---------------- properties: life cycle and streaming reader ---------------- *)

StartSucceeded(c) == c.io = <<Cmd("msdr_start", 0), Cmd("msdr_get_stats", 0)>>
ReadFailed(c)     == c.op = "work" /\ c.io[1].rc < 0
ReadSucceeded(c)  == c.op = "work" /\ c.io[1].rc >= 0
StatsQueries(c)   == Cardinality({j \in 1 .. Len(c.io) : c.io[j].f = "msdr_get_stats"})

\* C1: after any stop() the running flag is false, whether msdr_stop reported
\* success or failure.
C1_StopAlwaysClearsRunning == call.op = "stop" => _running = FALSE

\* C2: start() returns true, sets the running flag and resets the timestamp to 0
\* exactly when msdr_start and the one statistics query that follows it both
\* succeed; otherwise it returns false and leaves flag and timestamp as they were.
C2_StartContract ==
    [][call'.op = "start" =>
         /\ call'.ret = StartSucceeded(call')
         /\ StatsQueries(call') <= 1
         /\ StartSucceeded(call') => _running' = TRUE /\ timestamp_rx' = 0
         /\ ~StartSucceeded(call') => _running' = _running /\ timestamp_rx' = timestamp_rx]_vars

\* a start() whose statistics query failed, on a session idle at a non-zero timestamp
C2_Witness ==
    /\ call.op = "start"
    /\ Len(call.io) = 2 /\ call.io[2].rc # 0
    /\ ~call.ret /\ ~_running /\ timestamp_rx > 0

\* C3: a read whose msdr_read fails produces 0 samples, keeps the stored
\* timestamp and the running flag, and queries the statistics exactly once;
\* nothing of this depends on the result of that query.
C3_FailedRead ==
    [][ReadFailed(call') =>
         /\ call'.ret = 0
         /\ timestamp_rx' = timestamp_rx
         /\ _running' = _running
         /\ StatsQueries(call') = 1
         /\ UNCHANGED <<dev_streaming, freqVars, rateVars>>]_vars

\* a failed read of the largest count whose statistics query failed too, while running
C3_Witness ==
    /\ ReadFailed(call) /\ call.arg = MaxItems
    /\ call.io[2].rc # 0
    /\ call.ret = 0 /\ _running /\ timestamp_rx > 0

\* C4: a successful read returns the transport's count and stores the
\* transport's timestamp, so the stored timestamp always is the one reported
\* by the last successful read since the last successful start(), 0 if none.
C4_SuccessfulRead ==
    /\ [](timestamp_rx = reported_ts)
    /\ [][ReadSucceeded(call') =>
             /\ call'.io[1].rc <= call'.arg
             /\ call'.ret = call'.io[1].rc
             /\ timestamp_rx' = call'.io[1].ts]_vars

\* a read, right after another read, that produced fewer samples than asked for
C4_Witness ==
    /\ ReadSucceeded(call) /\ call.after = "work"
    /\ call.ret > 0 /\ call.ret < call.arg
    /\ timestamp_rx = call.io[1].ts /\ timestamp_rx = 1

\* C5 as stated: the stored timestamp never decreases except when a start()
\* resets it to 0.
C5_NeverRewound ==
    [][timestamp_rx' < timestamp_rx =>
         call'.op = "start" /\ call'.ret /\ timestamp_rx' = 0]_vars

\* C5 amended: the stored timestamp changes only when a successful start()
\* resets it to 0 or a successful read stores the timestamp the transport
\* reported (which may be lower); stop(), a failed start() and a failed read
\* leave it alone.
C5_ChangedOnlyByStartAndRead ==
    [][timestamp_rx' # timestamp_rx =>
         \/ call'.op = "start" /\ call'.ret /\ timestamp_rx' = 0
         \/ ReadSucceeded(call') /\ timestamp_rx' = call'.io[1].ts]_vars

\* a stop() after reads, and a failed restart, both with the timestamp kept
C5_Witness ==
    /\ call.op = "start" /\ ~call.ret /\ call.after = "stop"
    /\ timestamp_rx = MaxTs

(* ---------------- properties: frequency corrector ---------------- *)

\* floor(a / 1000000)
DivMillion(a) == BDivSmall(BDivSmall(a, 1000).q, 1000).q

\* f * (1 + p * 1e-6) in exact arithmetic, times 1000000
ExactCorrectedMicro(f, p) == BMul(f, FromInt(1000000 + p))

\* the exact corrected value lies outside [70 MHz, 6000 MHz]
ExactOutside(f, p) ==
    \/ BLt(ExactCorrectedMicro(f, p), <<70, 0, 0, 0, 0>>)
    \/ BLt(<<6, 0, 0, 0, 0, 0>>, ExactCorrectedMicro(f, p))

\* the corrected value as the code computes and truncates it lies outside [70 MHz, 6000 MHz]
TruncOutside(f, p) ==
    Strict(DFloor(APPLY_PPM_CORR(DFromBig(f), DFromInt(p))), LAMBDA c :
        BLt(c, get_freq_range.start) \/ BLt(get_freq_range.stop, c))

Rejected == _center_freq' = _center_freq /\ rx_freq' = rx_freq /\ call'.ret = _center_freq

GetReturnsStored ==
    call'.op = "get_center_freq" => call'.ret = _center_freq /\ UNCHANGED freqVars

\* C6 as stated: a set_center_freq(f) whose ppm-corrected value lies outside
\* [70 MHz, 6000 MHz] changes neither the stored center frequency nor rx_freq
\* and returns, as every later get_center_freq() does, the stored frequency.
C6_OutsideRejected ==
    [][/\ call'.op = "set_center_freq" /\ ExactOutside(call'.arg, _freq_corr) => Rejected
       /\ GetReturnsStored]_vars

\* C6 amended: the same for a set_center_freq(f) whose corrected value, computed
\* in double arithmetic and truncated to whole hertz as it is handed to
\* pciesdr_set_freq, lies outside [70 MHz, 6000 MHz].
C6_TruncatedOutsideRejected ==
    [][/\ call'.op = "set_center_freq" /\ TruncOutside(call'.arg, _freq_corr) => Rejected
       /\ GetReturnsStored]_vars

\* set_center_freq(50e6) rejected with 1.5 GHz stored under a correction of 10 ppm
C6_Witness ==
    /\ call.op = "set_center_freq" /\ call.arg = <<50, 0, 0>>
    /\ _freq_corr = 10
    /\ call.ret = <<1, 500, 0, 0>> /\ _center_freq = <<1, 500, 0, 0>>
    /\ rx_freq = <<1, 500, 15, 0>>

\* C7: the correction only affects the pushed value: 10 ppm set on a center of
\* 1,500,000,000 gives rx_freq = 1,500,015,000 with the center still
\* 1,500,000,000, and every accepted set_center_freq(f) under correction p
\* stores f and pushes f * (1 + p * 1e-6) truncated to an integer.
C7_CorrectionOnlyPushed ==
    [][/\ call'.op = "set_freq_corr" /\ call'.arg = 10 /\ _center_freq = <<1, 500, 0, 0>>
          => _center_freq' = <<1, 500, 0, 0>> /\ rx_freq' = <<1, 500, 15, 0>>
       /\ call'.op = "set_center_freq" /\ ~TruncOutside(call'.arg, _freq_corr)
          => /\ _center_freq' = call'.arg
             /\ rx_freq' = DivMillion(ExactCorrectedMicro(call'.arg, _freq_corr))]_vars

(* ---------------- properties: rational rate negotiator ---------------- *)

\* the rate i + k / 2^s lies outside [400e3, 25e6]
RateOutOfRange(x) == x.i < 400000 \/ x.i > 25000000 \/ (x.i = 25000000 /\ x.k > 0)

\* C8: an out-of-range set_sample_rate(r) changes neither the stored rate nor
\* the numerator nor the denominator and returns the stored rate.
C8_RejectedRate ==
    [][call'.op = "set_sample_rate" /\ RateOutOfRange(call'.arg) =>
         UNCHANGED rateVars /\ call'.ret = _sample_rate]_vars

\* set_sample_rate(25000000.5) rejected with 1500000.5 = 3000001 / 2 configured
C8_Witness ==
    /\ call.op = "set_sample_rate" /\ call.arg = Rate(25000000, 1, 1)
    /\ call.ret = Rate(1500000, 1, 1) /\ _sample_rate = Rate(1500000, 1, 1)
    /\ sample_rate_num = <<3, 0, 1>> /\ sample_rate_den = 2

\* C9: set_sample_rate(x) followed by get_sample_rate() returns x for every x
\* in [400e3, 25e6], also above the advertised maximum of get_sample_rates(),
\* and the rate stored before for every other x.
C9_RoundTrip ==
    [][/\ call'.op = "set_sample_rate" =>
            /\ call'.ret = _sample_rate'
            /\ _sample_rate' = IF RateOutOfRange(call'.arg) THEN _sample_rate ELSE call'.arg
       /\ call'.op = "get_sample_rate" =>
            /\ call'.ret = _sample_rate /\ UNCHANGED rateVars
            /\ call.op = "set_sample_rate" => call'.ret = call.ret]_vars

\* get_sample_rate() right after set_sample_rate(22000000.25), above the advertised 20e6
C9_Witness ==
    /\ call.op = "get_sample_rate" /\ call.after = "set_sample_rate"
    /\ call.ret = Rate(22000000, 1, 2)
    /\ call.ret.i >= get_sample_rates.stop
    /\ sample_rate_num = <<88, 0, 1>> /\ sample_rate_den = 4

\* round(a / 2^s), halves up
RoundShift(a, s) == IF s = 0 THEN a ELSE BDivSmall(BAdd(BShr(a, s - 1).q, <<1>>), 2).q

\* the rate x in units of 1e-9, rounded to the nearest unit
RoundedNano(x) == BAdd(BMul(FromInt(x.i), FromInt(precision)),
                       RoundShift(BMul(FromInt(x.k), FromInt(precision)), x.s))

\* numerator - floor(rate) * denominator
FractionalNumerator ==
    BSub(sample_rate_num, BMul(FromInt(_sample_rate.i), FromInt(sample_rate_den)))

\* C10: the denominator is not zero and divides 1,000,000,000, the fractional
\* numerator and the denominator are coprime, and numerator / denominator is
\* the stored rate rounded to 1e-9; an integral rate has denominator 1 and
\* numerator equal to the rate.
C10_ReducedFraction ==
    /\ sample_rate_den # 0
    /\ precision % sample_rate_den = 0
    /\ BLe(BMul(FromInt(_sample_rate.i), FromInt(sample_rate_den)), sample_rate_num)
    /\ gcd(ToInt(FractionalNumerator), sample_rate_den) = 1
    /\ BMul(sample_rate_num, FromInt(precision \div sample_rate_den)) = RoundedNano(_sample_rate)
    /\ _sample_rate.k = 0 => sample_rate_den = 1 /\ sample_rate_num = FromInt(_sample_rate.i)

(* ---------------- properties: gain arbiter ---------------- *)

\* the transport commands f of a call
Issued(c, f) == {j \in 1 .. Len(c.io) : c.io[j].f = f}

\* C11: get_gain() returns the configured gain when the running flag is false
\* (so set_gain(25) while not running followed by get_gain() returns 25) and the
\* value msdr_get_rx_gain answers when the flag is true; in both cases it leaves
\* StartParams.rx_gain as it was.
C11_GetGain ==
    [][call'.op = "get_gain" =>
         /\ rx_gain' = rx_gain
         /\ ~_running => call'.ret = rx_gain /\ call'.io = << >>
         /\ _running => /\ Len(call'.io) = 1 /\ Issued(call', "msdr_get_rx_gain") = {1}
                        /\ call'.ret = call'.io[1].gain
         /\ (call.op = "set_gain" /\ call.arg = 25 /\ ~_running) => call'.ret = 25]_vars

\* a get_gain() while running that returned a live value other than the configured 25
C11_Witness ==
    /\ call.op = "get_gain" /\ _running
    /\ Len(call.io) = 1 /\ call.ret = call.io[1].gain
    /\ rx_gain = 25 /\ call.ret # rx_gain

\* C12: set_gain(g) always stores g as the configured gain; it issues a live gain
\* command exactly when the running flag is true at the call; when that command
\* fails the configured gain still equals g and neither the running flag nor the
\* stream state changes.
C12_SetGain ==
    [][call'.op = "set_gain" =>
         /\ rx_gain' = call'.arg
         /\ (Issued(call', "msdr_set_rx_gain") # {}) <=> _running
         /\ _running => Issued(call', "msdr_set_rx_gain") = {1} /\ call'.io[1].gain = call'.arg
         /\ UNCHANGED <<_running, timestamp_rx, dev_streaming, started, handed>>]_vars

\* a set_gain(60) while running whose live command failed and that stored 60
C12_Witness ==
    /\ call.op = "set_gain" /\ call.arg = 60 /\ _running
    /\ call.io[1].f = "msdr_set_rx_gain" /\ call.io[1].rc # 0
    /\ rx_gain = 60

(* ---------------- properties: construction and teardown ---------------- *)

\* C13: after successful construction the configured RF gain is 0 and the running
\* flag is false, so a start() issued before any set_gain call hands the transport
\* start parameters whose receive gain is 0, not the prefilled 40.
C13_ConstructedGainZero ==
    [][/\ (call'.op = "ctor" /\ session' = "alive") => rx_gain' = 0 /\ ~_running'
       /\ (call'.op = "start" /\ call.op = "ctor" /\ call'.io # << >>) =>
              handed' # << >> /\ handed'[1].rx_gain = 0]_vars

\* a start() right after a successful construction, handing over receive gain 0
C13_Witness ==
    /\ call.op = "start" /\ call.after = "ctor" /\ call.ret
    /\ session = "alive" /\ handed # << >> /\ handed[1].rx_gain = 0 /\ Prefilled.rx_gain = 40

\* C14: over the life of one session msdr_close is issued exactly once if msdr_open
\* returned a handle, by the destructor and not before, and never if it returned
\* NULL; a failed open makes construction fail with no object, so no start, stop,
\* read or gain command is ever issued on a missing handle.
C14_CloseOnce ==
    [][/\ closes' = (IF session' = "destroyed" THEN 1 ELSE 0)
       /\ closes' # closes => call'.op = "dtor" /\ _dev # NULL /\ Issued(call', "msdr_close") = {1}
       /\ call'.op # "dtor" => Issued(call', "msdr_close") = {}
       /\ session' = "failed" => _dev' = NULL /\ closes' = 0 /\ call'.op = "ctor"
       /\ session # "failed"
       /\ \A j \in 1 .. Len(call'.io) : call'.io[j].f # "msdr_open" => _dev # NULL]_vars

\* a session torn down after streaming, its device closed once
C14_Witness ==
    /\ session = "destroyed" /\ closes = 1 /\ call.op = "dtor"
    /\ call.io = <<Cmd("msdr_close", 0)>> /\ call.after = "stop"

\* a construction that failed on msdr_open returning NULL: nothing to close
C14_WitnessFailed == session = "failed" /\ _dev = NULL /\ closes = 0

(* ---------------- properties: streaming periods ---------------- *)

\* C15: after a stop() the session can be started again, and every successful
\* start(), the first one and each restart, hands the transport the start
\* parameters as currently accumulated (frequency, rate, gain, bandwidth), sets the
\* running flag and begins with the stream timestamp at 0 whatever timestamp the
\* previous streaming period reached.
C15_Restart ==
    [][(call'.op = "start" /\ call'.ret) =>
         /\ handed' = <<[rx_freq |-> rx_freq, sample_rate_num |-> sample_rate_num,
                         sample_rate_den |-> sample_rate_den, rx_gain |-> rx_gain,
                         rx_bandwidth |-> rx_bandwidth]>>
         /\ UNCHANGED <<freqVars, rateVars, gainVars>>
         /\ _running' /\ started' /\ dev_streaming'
         /\ timestamp_rx' = 0]_vars

\* a restart after a stop(), handing over the frequency, rate, gain and bandwidth
\* set since construction
C15_Witness ==
    /\ call.op = "start" /\ call.ret /\ call.after = "stop"
    /\ _running /\ timestamp_rx = 0
    /\ handed # << >>
    /\ handed[1].rx_freq = LifeFreq /\ handed[1].rx_gain = LifeGain
    /\ handed[1].sample_rate_num = <<1, 500, 0>> /\ handed[1].sample_rate_den = 1
    /\ DFloor(handed[1].rx_bandwidth) = <<1, 125, 0>>      \* 0.75 * 1.5e6
    /\ handed[1] # [rx_freq |-> Constructed.rx_freq, sample_rate_num |-> Constructed.num,
                    sample_rate_den |-> Constructed.den, rx_gain |-> Constructed.gain,
                    rx_bandwidth |-> Constructed.bandwidth]

(* ---------------- properties: IF gain stage ---------------- *)

\* a step that sets the IF gain stage
IfGainStep ==
    \/ call'.op = "set_if_gain"
    \/ call'.op = "set_gain_name" /\ call'.arg.name = "IF"

\* C16: setting the IF gain stage (set_if_gain, or set_gain with name "IF") is a
\* stub: it issues no transport command whether or not the session is running,
\* changes neither the configured RF gain nor any other stored state, and returns
\* the stored IF value.
C16_IfGainStub ==
    [][IfGainStep =>
         /\ call'.io = << >>
         /\ call'.ret = _vga_gain
         /\ UNCHANGED <<gainVars, streamVars, freqVars, rateVars, objVars>>]_vars

\* set_gain(60, "IF") while running: no command, the stored IF value returned, not 60
C16_Witness ==
    /\ call.op = "set_gain_name" /\ call.arg = [gain |-> 60, name |-> "IF"]
    /\ _running /\ dev_streaming
    /\ call.io = << >> /\ call.ret = _vga_gain /\ call.ret # 60

(* ---------------- properties: concurrent callers ---------------- *)

\* the statements that read or write _running
TouchesRunning == {"start_set", "stop_clear", "set_gain_live", "get_gain_live"}

\* the statements inside the scope of a scoped_lock on _running_mutex
InScope == {"start_set", "start_unlock", "stop_clear", "stop_unlock",
            "set_gain_live", "set_gain_unlock", "get_gain_live", "get_gain_unlock"}

\* C17: with a control thread calling set_gain / get_gain while another thread
\* calls start / stop, every read and write of the running flag happens with
\* _running_mutex held, at most one thread is inside a locked scope at a time, the
\* mutex is held only inside such a scope (so it is released on every path, and
\* set_gain has released it when it calls get_gain), and every call eventually
\* returns.
C17_RunningMutex ==
    /\ [](\A t \in Threads : pc[t] \in TouchesRunning => lock = t)
    /\ [](\A t \in Threads : lock = t <=> pc[t] \in InScope)
    /\ [](\A t, u \in Threads : (pc[t] \in InScope /\ pc[u] \in InScope) => t = u)
    /\ [][_running' # _running => \E t \in Threads : lock = t /\ pc[t] \in TouchesRunning]_vars
    /\ \A t \in Threads : (pc[t] # "idle") ~> (pc[t] = "idle")

\* set_gain() has left its locked scope and is about to call get_gain() while
\* stop() holds the mutex and is about to clear the flag
C17_Witness ==
    /\ pc["ctl"] = "get_gain" /\ pc["run"] = "stop_clear"
    /\ lock = "run" /\ _running

(* ---------------- properties: two sessions ---------------- *)

\* C18: the running state is per session: with a second session alive,
\* constructing, starting or stopping it never changes whether this session's
\* get_gain / set_gain consult its live device; they do exactly when this session
\* itself has been started and not stopped.
C18_PerSession ==
    [][call'.op \in {"get_gain", "set_gain"} =>
         ((Issued(call', "msdr_get_rx_gain") # {}) <=> started)]_vars

(* ---------------- properties: stored correction and pushed frequency ---------------- *)

\* C19: in every state reachable after construction by set_center_freq and
\* set_freq_corr calls, accepted or rejected, rx_freq equals the stored center
\* frequency corrected by the stored ppm value, trunc(center_freq * (1 + freq_corr * 1e-6)),
\* computed as set_center_freq computes it; a set_freq_corr whose re-applied
\* frequency is rejected does not leave the two inconsistent.
C19_PushedMatchesStored ==
    rx_freq = DFloor(APPLY_PPM_CORR(DFromBig(_center_freq), DFromInt(_freq_corr)))

(* ---------------- properties: live gain commands and the stream ---------------- *)

\* a thread executes the guarded live call of set_gain() or get_gain() with the
\* running flag set: msdr_set_rx_gain or msdr_get_rx_gain reaches the transport
LiveGainStep ==
    \E t \in Threads :
        /\ pc[t] \in {"set_gain_live", "get_gain_live"}
        /\ pc'[t] # pc[t]
        /\ _running

\* C20: under every interleaving of a control thread calling set_gain / get_gain
\* with a thread calling start() / stop(), a live gain command or query reaches
\* the transport only while the transport is streaming: never before msdr_start
\* has succeeded and never after the msdr_stop of a stop() has been issued.
C20_LiveOnlyWhileStreaming ==
    [][LiveGainStep => dev_streaming]_vars

====
